---- MODULE Spec2Model ----
(***************************************************************************)
(* A model of image_converter_gui.py: the ConversionWorker (its request,   *)
(* its cancellation flag, the signals it emits while run_conversion runs   *)
(* on the conversion thread) and the MainWindow that selects the files,    *)
(* starts workers, receives their signals and is closed.                   *)
(***************************************************************************)
EXTENDS Integers, Sequences, FiniteSets, TLC

VARIABLES
    image_files,    \* ConversionWorker.image_files: a sequence of paths
    size_option,    \* ConversionWorker.size_option
    quality_value,  \* ConversionWorker.quality_value
    output_folder,  \* ConversionWorker.output_folder
    _is_running,    \* ConversionWorker._is_running, the cancellation flag
    pc,             \* where run_conversion stands on the conversion thread
    i,              \* the loop index of run_conversion
    success_count,  \* run_conversion's local success_count
    fail_count,     \* run_conversion's local fail_count
    events,         \* every signal emitted by the worker, in emission order
    attempted,      \* history: the indices whose processing was started
    written,        \* history: every img_to_save.save that returned, in order
    made_dir,       \* whether the worker's os.makedirs call returned
    stopped_at,     \* history: the worker's position when stop() was called
    window,         \* MainWindow: "open", "waiting" (inside wait(1000)), "closed"
    fs,             \* the files on disk: path -> what opening and decoding it gives
    selection,      \* MainWindow.image_files
    controls,       \* whether the selection and option controls are enabled
    convert_button, \* whether convert_button is enabled
    conversion_thread, \* MainWindow.conversion_thread: "None", "running" or
                    \* "finished" (set, its event loop ended)
    received,       \* history: the positions in events of the signals whose
                    \* slot has run on the main thread, in the order they ran
    runs,           \* history: how many workers start_conversion has started
    request,        \* history: what start_conversion handed the current worker
    previous        \* history: the outcome of an earlier run of the same request

\* the worker and its run
worker_vars == << image_files, size_option, quality_value, output_folder,
                 _is_running, pc, i, success_count, fail_count, events,
                 attempted, written, made_dir, stopped_at >>

\* the window's own state, and the history kept about it
shell_vars == << selection, controls, convert_button, received, runs,
                request, previous >>

vars == << image_files, size_option, quality_value, output_folder, _is_running,
           pc, i, success_count, fail_count, events, attempted, written,
           made_dir, stopped_at, window, fs, selection, controls,
           convert_button, conversion_thread, received, runs, request,
           previous >>

----------------------------------------------------------------------------
(* Bounds.                                                                 *)

\* the longest list of files handed to a worker
MaxFiles == 3

\* the largest image width and height, in pixels
MaxDim == 6

\* the longest list of the runs that only follow the progress values
MaxTotal == 50

\* the most workers one window starts
MaxRuns == 2

----------------------------------------------------------------------------
(* Characters and paths.  A path is a sequence of one-character strings;   *)
(* Alphabet lists the characters in code point order, which is the order   *)
(* Python compares strings by.                                             *)

Alphabet ==
    << ".", "/", "0", "1", "2", "3", "4", "5", "6", "7", "8", "9",
       "a", "b", "c", "d", "e", "f", "g", "h", "j", "m", "n", "o", "p", "t",
       "u", "w", "x", "y", "z" >>

Ord(c) == CHOOSE k \in 1..Len(Alphabet) : Alphabet[k] = c

\* str.__lt__: lexicographic comparison by code point
RECURSIVE StrLess(_, _)
StrLess(s, t) ==
    IF s = << >> THEN t # << >>
    ELSE IF t = << >> THEN FALSE
    ELSE IF Head(s) = Head(t) THEN StrLess(Tail(s), Tail(t))
    ELSE Ord(Head(s)) < Ord(Head(t))

\* the index of the last occurrence of character c in s, 0 when there is none
RECURSIVE LastIndex(_, _)
LastIndex(s, c) ==
    IF s = << >> THEN 0
    ELSE IF s[Len(s)] = c THEN Len(s)
    ELSE LastIndex(SubSeq(s, 1, Len(s) - 1), c)

\* os.path.basename(image_file): what follows the last "/"
basename(p) == SubSeq(p, LastIndex(p, "/") + 1, Len(p))

\* the number of leading dots of a name
RECURSIVE LeadingDots(_)
LeadingDots(s) ==
    IF s # << >> /\ Head(s) = "." THEN 1 + LeadingDots(Tail(s)) ELSE 0

\* os.path.splitext(base_name)[0]: the name up to its last dot, the dots a
\* name starts with not counting as the start of an extension
splitext_root(b) ==
    LET d == LastIndex(b, ".")
    IN  IF d > LeadingDots(b) THEN SubSeq(b, 1, d - 1) ELSE b

\* a plausible slip: the new extension added to the whole base name
output_filename_keeps_extension(b) == b \o << ".", "w", "e", "b", "p" >>

\* f"{os.path.splitext(base_name)[0]}.webp"
output_filename(b) == splitext_root(b) \o << ".", "w", "e", "b", "p" >>

\* os.path.join(self.output_folder, output_filename)
output_file(folder, name) == folder \o << "/" >> \o name

----------------------------------------------------------------------------
(* Python floats.  i / num_images and the product with 100 are IEEE 754     *)
(* binary64 operations, each rounded to nearest, ties to even, and int()    *)
(* truncates.  A positive float is a record [e, f] standing for             *)
(*     (1 + f[1]/B + f[2]/B^2 + f[3]/B^3 + f[4]/B^4) * 2^e,   B = 2^13,     *)
(* so that the leading 1 and the four 13-bit limbs of f are the 53 bits of  *)
(* a binary64 significand.                                                  *)

RECURSIVE Pow2(_)
Pow2(k) == IF k = 0 THEN 1 ELSE 2 * Pow2(k - 1)

\* the base of a limb of the fraction, 2^13
LimbBase == Pow2(13)

\* the smallest k with a * 2^k >= n, for 0 < a
RECURSIVE NormShift(_, _)
NormShift(a, n) == IF a >= n THEN 0 ELSE 1 + NormShift(2 * a, n)

\* the largest s with 2^s <= v, for 0 < v
RECURSIVE Log2(_)
Log2(v) == IF v < 2 THEN 0 ELSE 1 + Log2(v \div 2)

\* long division: the next c limbs of rem / n, for rem < n
RECURSIVE DivLimbs(_, _, _)
DivLimbs(rem, n, c) ==
    IF c = 0 THEN << >>
    ELSE << (rem * LimbBase) \div n >>
         \o DivLimbs((rem * LimbBase) % n, n, c - 1)

\* the remainder left after c limbs of rem / n
RECURSIVE DivRem(_, _, _)
DivRem(rem, n, c) ==
    IF c = 0 THEN rem ELSE DivRem((rem * LimbBase) % n, n, c - 1)

\* the fraction f plus one unit in its last place; << >> \o [0, ...] with a
\* leading LimbBase when the fraction overflows
RECURSIVE IncLimbs(_)
IncLimbs(f) ==
    IF f = << >> THEN << >>
    ELSE IF f[Len(f)] + 1 < LimbBase
         THEN SubSeq(f, 1, Len(f) - 1) \o << f[Len(f)] + 1 >>
         ELSE IncLimbs(SubSeq(f, 1, Len(f) - 1)) \o << 0 >>

\* the fraction f at exponent e, rounded up by one unit in the last place
\* when `up`: a fraction of all ones rounds up to 1.0 * 2^(e + 1)
Rounded(f, e, up) ==
    IF ~up THEN [e |-> e, f |-> f]
    ELSE IF \A j \in 1..Len(f) : f[j] = LimbBase - 1
         THEN [e |-> e + 1, f |-> [j \in 1..Len(f) |-> 0]]
         ELSE [e |-> e, f |-> IncLimbs(f)]

\* float(a) / float(n) for integers 0 < a < n, correctly rounded
FloatDiv(a, n) ==
    LET k   == NormShift(a, n)
        r0  == a * Pow2(k) - n
        f   == DivLimbs(r0, n, 4)
        rem == DivRem(r0, n, 4)
        up  == \/ 2 * rem > n
               \/ 2 * rem = n /\ f[4] % 2 = 1
    IN  Rounded(f, 0 - k, up)

\* the limbs of f * m + carry, the first one holding what exceeds its limb
RECURSIVE MulLimbs(_, _, _)
MulLimbs(f, m, carry) ==
    IF f = << >> THEN << carry >>
    ELSE MulLimbs(SubSeq(f, 1, Len(f) - 1), m,
                  (f[Len(f)] * m + carry) \div LimbBase)
         \o << (f[Len(f)] * m + carry) % LimbBase >>

\* x * float(m) for a float x > 0 and an integer 0 < m < 2^13, correctly
\* rounded: the exact product is p[1] + p[2]/B + ... + p[5]/B^4 with
\* m <= p[1] < 2m, renormalised by s = Log2(p[1]) bits
FloatMulInt(x, m) ==
    LET p    == MulLimbs(x.f, m, 0)
        top  == p[1] + m
        s    == Log2(top)
        q    == << top >> \o Tail(p)
        f    == [j \in 1..4 |->
                   (q[j] % Pow2(s)) * Pow2(13 - s) + q[j + 1] \div Pow2(s)]
        lost == q[5] % Pow2(s)
        up   == s > 0 /\ \/ 2 * lost > Pow2(s)
                         \/ 2 * lost = Pow2(s) /\ f[4] % 2 = 1
    IN  Rounded(f, x.e + s, up)

\* int(x) for a float 0 < x < 2^13
FloatTrunc(x) ==
    IF x.e < 0 THEN 0 ELSE Pow2(x.e) + x.f[1] \div Pow2(13 - x.e)

\* a plausible slip: the percentage of the files done once this one is
progress_percent_completed(idx, total) == (100 * (idx + 1)) \div total

\* progress_percent = int((i / num_images) * 100)
progress_percent(idx, total) ==
    IF idx = 0 THEN 0
    ELSE FloatTrunc(FloatMulInt(FloatDiv(idx, total), 100))

\* progress_percent for every index of every list the model runs over,
\* computed once
progress_values ==
    [total \in 1..(MaxFiles + MaxTotal) |->
        [idx \in 0..(total - 1) |-> progress_percent(idx, total)]]

----------------------------------------------------------------------------
(* The request: resize options, quality values, images.                    *)

\* the entries of size_map in MainWindow.start_conversion
SizeOptions == { "Original", "Small", "Medium", "Large" }

\* quality_slider: its minimum, its initial value, its maximum
QualityMin == 20

QualityDefault == 90

QualityMax == 100

Qualities == { QualityMin, QualityDefault, QualityMax }

\* the quality values a worker is tried with: those of the slider, the
\* lowest the WEBP encoder takes and the highest that is still lossy
EncoderQualities == Qualities \cup { 1, QualityMax - 1 }

\* PIL image modes the worker tells apart, and two it passes through
Modes == { "P", "L", "LA", "CMYK", "RGB", "RGBA" }

\* resize_factor, as the fraction <<numerator, denominator>> its float equals
resize_factor(option) ==
    IF option = "Small" THEN << 1, 2 >>
    ELSE IF option = "Medium" THEN << 3, 4 >>
    ELSE IF option = "Large" THEN << 3, 2 >>
    ELSE << 1, 1 >>

\* int(dim * resize_factor): the product is exact in binary64 for the three
\* factors, and int() truncates
scaled(dim, factor) == (dim * factor[1]) \div factor[2]

Max(a, b) == IF a >= b THEN a ELSE b

\* a plausible slip in new_size: the clamp to one pixel left out
new_size_unclamped(width, height, factor) ==
    << scaled(width, factor), scaled(height, factor) >>

\* new_size = (max(1, int(img.width * f)), max(1, int(img.height * f)))
new_size(width, height, factor) ==
    << Max(1, scaled(width, factor)), Max(1, scaled(height, factor)) >>

\* the size of img_to_save when it is saved
saved_size(width, height, option) ==
    IF resize_factor(option) # << 1, 1 >>
    THEN new_size(width, height, resize_factor(option))
    ELSE << width, height >>

\* the mode of img_to_save after "Handle modes"
saved_mode(mode, quality) ==
    IF mode \in { "P", "L", "LA" } /\ quality < 100 THEN "RGBA"
    ELSE IF mode = "CMYK" THEN "RGB"
    ELSE mode

\* a plausible slip: every high quality taken for lossless
lossless_mode_high(quality) == quality >= 90

\* lossless_mode = self.quality_value == 100
lossless_mode(quality) == quality = 100

----------------------------------------------------------------------------
(* Exceptions.  Every exception the with-block can raise below is an        *)
(* Exception; ExcParent is the class each derives from.                     *)

ExcParent(cls) ==
    IF cls \in { "FileNotFoundError", "PermissionError", "NotADirectoryError",
                 "UnidentifiedImageError" }
    THEN "OSError"
    ELSE IF cls \in { "OSError", "ValueError" } THEN "Exception"
    ELSE "BaseException"

\* isinstance(exception of class cls, base)
RECURSIVE IsInstance(_, _)
IsInstance(cls, base) ==
    \/ cls = base
    \/ cls # "BaseException" /\ IsInstance(ExcParent(cls), base)

\* a plausible slip: the general clause written first
ExceptClausesGeneralFirst ==
    << "OSError", "FileNotFoundError", "PermissionError",
       "UnidentifiedImageError", "Exception" >>

\* the except clauses of the per-file try, in the order written
ExceptClauses ==
    << "FileNotFoundError", "PermissionError", "UnidentifiedImageError",
       "OSError", "Exception" >>

\* the clause that handles an exception of class cls: the first that matches
except_clause(cls) ==
    ExceptClauses[CHOOSE k \in 1..Len(ExceptClauses) :
                    /\ IsInstance(cls, ExceptClauses[k])
                    /\ \A j \in 1..(k - 1) : ~IsInstance(cls, ExceptClauses[j])]

\* the text each clause hands to status_update, as the parts of its f-string
failure_message(clause, name, cls) ==
    IF clause = "FileNotFoundError" THEN << "Error: File not found - ", name >>
    ELSE IF clause = "PermissionError"
         THEN << "Error: Permission denied - ", name >>
    ELSE IF clause = "UnidentifiedImageError"
         THEN << "Error: Cannot identify image - ", name >>
    ELSE IF clause = "OSError" THEN << "Error processing ", name, cls >>
    ELSE << "Unexpected error processing ", name, cls >>

----------------------------------------------------------------------------
(* The files on disk.  A file is a record: fault is the exception that      *)
(* opening, decoding or saving it raises ("none": it converts), and mode,   *)
(* width and height are those of the decoded image.                         *)

Image(mode, width, height) ==
    [fault |-> "none", mode |-> mode, width |-> width, height |-> height]

Faulty(cls) == [fault |-> cls, mode |-> "RGB", width |-> 1, height |-> 1]

Faults == { "FileNotFoundError", "PermissionError", "UnidentifiedImageError",
            "OSError", "ValueError" }

PathA == << "a", "/", "x", ".", "p" >>
PathB == << "b", "/", "m", ".", "p" >>
PathC == << "c", "/", "u", ".", "g" >>
PathD == << "d", "/", "x", ".", "j" >>
PathE == << "e", "/", "n", ".", "p" >>
PathF == << "f", "/", "t", ".", "b" >>
PathG == << "g", "/", "y", ".", "z", ".", "t" >>
PathH == << "h", "/", ".", "e" >>

Paths == { PathA, PathB, PathC, PathD, PathE, PathF, PathG, PathH }

\* what each path holds; PathA and PathD share the stem "x"
Disk ==
    [p \in Paths |->
        IF p = PathA THEN Image("RGB", 5, 3)
        ELSE IF p = PathB THEN Faulty("FileNotFoundError")
        ELSE IF p = PathC THEN Faulty("UnidentifiedImageError")
        ELSE IF p = PathD THEN Image("P", 1, 2)
        ELSE IF p = PathE THEN Faulty("PermissionError")
        ELSE IF p = PathF THEN Faulty("OSError")
        ELSE IF p = PathG THEN Image("CMYK", 3, 1)
        ELSE Faulty("ValueError")]

\* the output folder handed to the worker
OutDir == << "o" >>

\* the lists MainWindow hands over: sorted(list(set(...))), so strictly
\* increasing; and the empty list run_conversion guards against itself
SortedLists(paths, maxlen) ==
    { l \in UNION { [1..k -> paths] : k \in 0..maxlen } :
        \A j \in 1..(Len(l) - 1) : StrLess(l[j], l[j + 1]) }

\* three decimal digits of k
Digits3(k) ==
    << Alphabet[((k \div 100) % 10) + 3], Alphabet[((k \div 10) % 10) + 3],
       Alphabet[(k % 10) + 3] >>

\* the k-th of a folder of numbered images
NumberedPath(k) == << "n", "/" >> \o Digits3(k) \o << ".", "p" >>

----------------------------------------------------------------------------
(* The signals of ConversionWorker.  An emitted signal is a record of its   *)
(* name and its arguments; a text is the tuple of the parts of its          *)
(* f-string.                                                                *)

Progress(value) == [sig |-> "progress", args |-> << value >>]

Status(text) == [sig |-> "status_update", args |-> text]

Finished(succeeded, failed) ==
    [sig |-> "finished", args |-> << succeeded, failed >>]

Error(text) == [sig |-> "error", args |-> text]

CancelledText == << "Conversion cancelled." >>

ProcessingText(idx, num_images, name) ==
    << "Processing", idx + 1, num_images, name >>

\* a plausible slip: the empty run reporting nothing back
no_images_signals_unfinished ==
    << Error(<< "No images selected for conversion." >>) >>

\* what run_conversion emits for an empty list
no_images_signals ==
    << Error(<< "No images selected for conversion." >>), Finished(0, 0) >>

\* a plausible slip: the files of the aborted run not counted as failed
makedirs_failed_signals_zero(folder, cause, num_images) ==
    << Error(<< "Could not create output folder", folder, cause >>),
       Finished(0, 0) >>

\* what run_conversion emits when os.makedirs raises the OSError `cause`
makedirs_failed_signals(folder, cause, num_images) ==
    << Error(<< "Could not create output folder", folder, cause >>),
       Finished(0, num_images) >>

\* a plausible slip: the final progress emitted after the completion
finish_signals_progress_last(running, succeeded, failed) ==
    IF running
    THEN << Finished(succeeded, failed), Progress(100) >>
    ELSE << Finished(succeeded, failed) >>

\* a plausible slip: a cancelled run returning without its completion
finish_signals_silent_cancel(running, succeeded, failed) ==
    IF running
    THEN << Progress(100), Finished(succeeded, failed) >>
    ELSE << >>

\* a plausible slip: the final progress emitted whatever the flag says
finish_signals_always_full(running, succeeded, failed) ==
    << Progress(100), Finished(succeeded, failed) >>

\* a plausible slip: the cancellation reported after the loop as well
finish_signals_reports_cancel(running, succeeded, failed) ==
    IF running
    THEN << Progress(100), Finished(succeeded, failed) >>
    ELSE << Status(CancelledText), Finished(succeeded, failed) >>

\* what run_conversion emits after the loop
finish_signals(running, succeeded, failed) ==
    IF running
    THEN << Progress(100), Finished(succeeded, failed) >>
    ELSE << Finished(succeeded, failed) >>

\* a plausible slip: the loop not looking at the flag
cancel_ignored(running) == FALSE

\* the test at the head of the loop: if not self._is_running
cancel_requested(running) == ~running

\* a plausible slip: the unexpected failure handled but not counted
counts_after_uncounted(succeeded, failed, clause) ==
    IF clause = "none" THEN << succeeded + 1, failed >>
    ELSE IF clause = "Exception" THEN << succeeded, failed >>
    ELSE << succeeded, failed + 1 >>

\* <<success_count, fail_count>> after a file: clause is "none" when the
\* with-block returned, else the except clause that handled the exception
counts_after(succeeded, failed, clause) ==
    IF clause = "none" THEN << succeeded + 1, failed >>
    ELSE << succeeded, failed + 1 >>

\* a plausible slip: a failed file tried again
next_index_retry(idx, clause) == IF clause = "none" THEN idx + 1 ELSE idx

\* enumerate(self.image_files): the index of the next iteration
next_index(idx, clause) == idx + 1

\* what os.makedirs(self.output_folder, exist_ok=True) may do
MakedirsOutcomes == { "ok", "PermissionError", "NotADirectoryError" }

\* the calls made on the decoded image, in the order of lines 104-127
save_steps(mode, option, quality) ==
    (IF saved_mode(mode, quality) # mode THEN << "convert" >> ELSE << >>)
    \o (IF resize_factor(option) # << 1, 1 >> THEN << "resize" >> ELSE << >>)
    \o << "save" >>

\* a plausible slip: img.resize in place of img_to_save.resize, so that a
\* resized image is the source as decoded, not as converted
saved_file_resizes_source(path, file, folder, option, quality) ==
    [file     |-> output_file(folder, output_filename(basename(path))),
     source   |-> path,
     size     |-> saved_size(file.width, file.height, option),
     mode     |-> IF resize_factor(option) # << 1, 1 >> THEN file.mode
                  ELSE saved_mode(file.mode, quality),
     steps    |-> save_steps(file.mode, option, quality),
     quality  |-> quality,
     lossless |-> lossless_mode(quality)]

\* what img_to_save.save writes for the image `file` read from `path`
saved_file(path, file, folder, option, quality) ==
    [file     |-> output_file(folder, output_filename(basename(path))),
     source   |-> path,
     size     |-> saved_size(file.width, file.height, option),
     mode     |-> saved_mode(file.mode, quality),
     steps    |-> save_steps(file.mode, option, quality),
     quality  |-> quality,
     lossless |-> lossless_mode(quality)]

\* the output files a sequence of saves leaves behind: save opens its file
\* for writing, so of the saves to one name the last is the one that stays
saved_files(saves) ==
    [f \in { saves[k].file : k \in 1..Len(saves) } |->
        saves[CHOOSE k \in 1..Len(saves) :
                /\ saves[k].file = f
                /\ \A j \in (k + 1)..Len(saves) : saves[j].file # f]]

----------------------------------------------------------------------------
(* The state after ConversionWorker.__init__ and conversion_thread.start.  *)

num_images == Len(image_files)

NeverStopped == [pc |-> "never", i |-> 0]

\* what start_conversion hands to ConversionWorker
Request(files, option, quality, folder) ==
    [files |-> files, option |-> option, quality |-> quality,
     folder |-> folder]

\* no earlier run of the same request is known
NoRun == [known |-> FALSE, left |-> << >>, counts |-> << 0, 0 >>]

Constructed(files, option, quality, folder, disk) ==
    /\ image_files = files
    /\ size_option = option
    /\ quality_value = quality
    /\ output_folder = folder
    /\ _is_running = TRUE
    /\ pc = "start"
    /\ i = 0
    /\ success_count = 0
    /\ fail_count = 0
    /\ events = << >>
    /\ attempted = << >>
    /\ written = << >>
    /\ made_dir = FALSE
    /\ stopped_at = NeverStopped
    /\ window = "open"
    /\ fs = disk
    /\ selection = files
    /\ controls = FALSE
    /\ convert_button = FALSE
    /\ conversion_thread = IF files = << >> THEN "None" ELSE "running"
    /\ received = << >>
    /\ runs = 1
    /\ request = Request(files, option, quality, folder)
    /\ previous = NoRun

Init ==
    \E files \in SortedLists(Paths, MaxFiles), option \in SizeOptions,
       quality \in Qualities :
        Constructed(files, option, quality, OutDir, Disk)

----------------------------------------------------------------------------
(* run_conversion, on the conversion thread.                               *)

\* a plausible slip: the counters kept across runs, not set back
start_counts_carried == << success_count, fail_count >>

\* lines 83-84: success_count = 0, fail_count = 0
start_counts == << 0, 0 >>

\* lines 49-84: the empty list, the resize settings, the output folder.  A
\* run that gives up emits its error here and its finished in Abort, the
\* main thread being free to run between the two.
Begin ==
    /\ pc = "start"
    /\ IF image_files = << >>
       THEN /\ events' = Append(events, Head(no_images_signals))
            /\ pc' = "abort"
            /\ UNCHANGED made_dir
       ELSE \E outcome \in MakedirsOutcomes :
              IF outcome = "ok"
              THEN /\ made_dir' = TRUE
                   /\ pc' = "loop"
                   /\ UNCHANGED events
              ELSE /\ events' = Append(events,
                        Head(makedirs_failed_signals(output_folder, outcome,
                                                     Len(image_files))))
                   /\ pc' = "abort"
                   /\ UNCHANGED made_dir
    /\ i' = 0
    /\ success_count' = start_counts[1]
    /\ fail_count' = start_counts[2]
    /\ UNCHANGED << image_files, size_option, quality_value, output_folder,
                    _is_running, attempted, written, stopped_at, window, fs >>
    /\ UNCHANGED << shell_vars, conversion_thread >>

\* lines 52-53 and 78-79: the finished of a run that gave up, and the return
Abort ==
    /\ pc = "abort"
    /\ events' = events \o
          (IF image_files = << >>
           THEN Tail(no_images_signals)
           ELSE Tail(makedirs_failed_signals(output_folder,
                                             events[Len(events)].args[3],
                                             Len(image_files))))
    /\ pc' = "done"
    /\ UNCHANGED << image_files, size_option, quality_value, output_folder,
                    _is_running, i, success_count, fail_count, attempted,
                    written, made_dir, stopped_at, window, fs >>
    /\ UNCHANGED << shell_vars, conversion_thread >>

\* lines 86-98: the head of one iteration
LoopCheck ==
    /\ pc = "loop"
    /\ IF cancel_requested(_is_running)
       THEN /\ events' = Append(events, Status(CancelledText))
            /\ pc' = "after"
            /\ UNCHANGED attempted
       ELSE /\ events' = events \o
                 << Progress(progress_values[num_images][i]),
                    Status(ProcessingText(i, num_images,
                                          basename(image_files[i + 1]))) >>
            /\ attempted' = Append(attempted, i)
            /\ pc' = "file"
    /\ UNCHANGED << image_files, size_option, quality_value, output_folder,
                    _is_running, i, success_count, fail_count, written,
                    made_dir, stopped_at, window, fs >>
    /\ UNCHANGED << shell_vars, conversion_thread >>

\* lines 100-147: the try block and its except clauses, then the step of
\* the for loop.  QApplication.processEvents() finds no event posted to the
\* conversion thread and changes nothing.
ProcessFile ==
    /\ pc = "file"
    /\ LET path   == image_files[i + 1]
           file   == fs[path]
           clause == IF file.fault = "none" THEN "none"
                     ELSE except_clause(file.fault)
           counts == counts_after(success_count, fail_count, clause)
       IN  /\ IF clause = "none"
              THEN /\ written' = Append(written,
                                    saved_file(path, file, output_folder,
                                               size_option, quality_value))
                   /\ UNCHANGED events
              ELSE /\ events' = Append(events,
                                    Status(failure_message(clause,
                                               basename(path), file.fault)))
                   /\ UNCHANGED written
           /\ success_count' = counts[1]
           /\ fail_count' = counts[2]
           /\ i' = next_index(i, clause)
           /\ pc' = IF next_index(i, clause) < num_images
                    THEN "loop" ELSE "after"
    /\ UNCHANGED << image_files, size_option, quality_value, output_folder,
                    _is_running, attempted, made_dir, stopped_at, window, fs >>
    /\ UNCHANGED << shell_vars, conversion_thread >>

\* lines 149-151: the final progress and the completion
Finish ==
    /\ pc = "after"
    /\ events' = events \o
                 finish_signals(_is_running, success_count, fail_count)
    /\ pc' = "done"
    /\ UNCHANGED << image_files, size_option, quality_value, output_folder,
                    _is_running, i, success_count, fail_count, attempted,
                    written, made_dir, stopped_at, window, fs >>
    /\ UNCHANGED << shell_vars, conversion_thread >>

Worker == Begin \/ Abort \/ LoopCheck \/ ProcessFile \/ Finish

----------------------------------------------------------------------------
(* MainWindow.closeEvent, on the main thread.                              *)

\* conversion_thread is not None and conversion_thread.isRunning(): the
\* thread start_conversion started runs until it is told to quit, which
\* the finished signal does once it is delivered, or is terminated
thread_running == conversion_thread = "running"

\* ConversionWorker.stop, with the position the worker was then at
stop ==
    /\ _is_running' = FALSE
    /\ stopped_at' = [pc |-> pc, i |-> i]

\* lines 485-497 and 501-505: the question, stop() and quit(), or accept
CloseEvent ==
    /\ window = "open"
    /\ IF thread_running
       THEN \E reply \in { "Yes", "No" } :
              IF reply = "Yes"
              THEN /\ stop
                   /\ window' = "waiting"
              ELSE UNCHANGED << _is_running, stopped_at, window >>
       ELSE /\ window' = "closed"
            /\ UNCHANGED << _is_running, stopped_at >>
    /\ UNCHANGED << image_files, size_option, quality_value, output_folder,
                    pc, i, success_count, fail_count, events, attempted,
                    written, made_dir, fs >>
    /\ UNCHANGED << shell_vars, conversion_thread >>

\* line 498: wait(1000) returns True: run_conversion has returned, and the
\* thread's event loop, back in control, obeys quit()
WaitReturns ==
    /\ window = "waiting"
    /\ pc = "done"
    /\ window' = "closed"
    /\ conversion_thread' = "finished"
    /\ UNCHANGED << image_files, size_option, quality_value, output_folder,
                    _is_running, pc, i, success_count, fail_count, events,
                    attempted, written, made_dir, stopped_at, fs >>
    /\ UNCHANGED shell_vars

\* lines 498-500: wait(1000) returns False, run_conversion still running,
\* and the thread is terminated
WaitTimesOut ==
    /\ window = "waiting"
    /\ pc # "done"
    /\ pc' = "killed"
    /\ window' = "closed"
    /\ conversion_thread' = "finished"
    /\ UNCHANGED << image_files, size_option, quality_value, output_folder,
                    _is_running, i, success_count, fail_count, events,
                    attempted, written, made_dir, stopped_at, fs >>
    /\ UNCHANGED shell_vars

Next == Worker \/ CloseEvent \/ WaitReturns \/ WaitTimesOut

Spec == Init /\ [][Next]_vars

\* the conversion thread is scheduled as long as it can run; nothing makes
\* the user close the window
FairSpec == Spec /\ WF_vars(Worker)

----------------------------------------------------------------------------
(* MainWindow: the selection, start_conversion and the slots the worker's  *)
(* signals are connected to.  The worker lives on the conversion thread,   *)
(* so each connection of lines 423-426 is queued: a signal's slot runs     *)
(* later, on the main thread, while the window's event loop runs.          *)

\* the files the file dialog of select_images offers
DialogPaths == { PathA, PathD }

\* the files dragged onto the window
DropPaths == { PathB, PathH }

\* the suffixes dropEvent accepts, as the model's paths abbreviate them:
\* .png, .webp, .jpg and .jpeg, .bmp, .gif, .tiff
DropSuffixes ==
    { << ".", "p" >>, << ".", "w" >>, << ".", "j" >>, << ".", "b" >>,
      << ".", "g" >>, << ".", "t" >> }

\* str.endswith
EndsWith(p, suffix) ==
    /\ Len(suffix) <= Len(p)
    /\ SubSeq(p, Len(p) - Len(suffix) + 1, Len(p)) = suffix

\* file_path.lower().endswith((...)): the paths of the model are lower case
valid_files(urls) ==
    { p \in urls : \E suffix \in DropSuffixes : EndsWith(p, suffix) }

\* sorted(list(set(...))): the paths of the set, in increasing order
sorted_set(paths) ==
    CHOOSE l \in [1..Cardinality(paths) -> paths] :
        \A j \in 1..(Len(l) - 1) : StrLess(l[j], l[j + 1])

\* a plausible slip: the new files appended, the list not made a sorted set
extended_only(files, more) == files \o sorted_set(more)

\* self.image_files.extend(files); self.image_files = sorted(list(set(...)))
extended(files, more) ==
    sorted_set({ files[k] : k \in 1..Len(files) } \cup more)

\* a plausible slip: the worker given the window's list itself, not a copy
worker_files_aliased(own, shell) == shell

\* the worker's list once the window has changed its own: line 416 handed
\* over list(self.image_files), a copy
worker_files_after(own, shell) == own

\* set_controls_enabled: convert_button.setEnabled(enabled and bool(files))
convert_enabled(enabled, files) == enabled /\ files # << >>

\* lines 308-322; a dialog closed without a choice changes nothing.
\* update_ui_after_selection enables convert_button, the list not empty.
select_images ==
    /\ window = "open"
    /\ controls
    /\ \E files \in (SUBSET DialogPaths) \ { {} } :
          /\ selection' = extended(selection, files)
          /\ image_files' = worker_files_after(image_files, selection')
    /\ convert_button' = (selection' # << >>)
    /\ UNCHANGED << size_option, quality_value, output_folder, _is_running,
                    pc, i, success_count, fail_count, events, attempted,
                    written, made_dir, stopped_at, window, fs, controls,
                    conversion_thread, received, runs, request, previous >>

\* lines 289-305: the drop is taken while the window accepts drops
dropEvent ==
    /\ window = "open"
    /\ controls
    /\ \E urls \in (SUBSET DropPaths) \ { {} } :
          IF valid_files(urls) # {}
          THEN /\ selection' = extended(selection, valid_files(urls))
               /\ image_files' = worker_files_after(image_files, selection')
               /\ convert_button' = (selection' # << >>)
          ELSE UNCHANGED << selection, image_files, convert_button >>
    /\ UNCHANGED << size_option, quality_value, output_folder, _is_running,
                    pc, i, success_count, fail_count, events, attempted,
                    written, made_dir, stopped_at, window, fs, controls,
                    conversion_thread, received, runs, request, previous >>

\* lines 324-328
clear_selection ==
    /\ window = "open"
    /\ controls
    /\ selection' = << >>
    /\ image_files' = worker_files_after(image_files, selection')
    /\ convert_button' = FALSE
    /\ UNCHANGED << size_option, quality_value, output_folder, _is_running,
                    pc, i, success_count, fail_count, events, attempted,
                    written, made_dir, stopped_at, window, fs, controls,
                    conversion_thread, received, runs, request, previous >>

\* a plausible slip: start_conversion without its test of the thread
start_refused_never(thread) == FALSE

\* lines 388-390: conversion_thread is not None and isRunning()
start_refused(thread) == thread = "running"

\* the run that has just ended went through, uncancelled, its folder made
CleanRun == pc = "done" /\ made_dir /\ stopped_at = NeverStopped

\* lines 383-440, on a click of the enabled convert_button.  It returns
\* early on an empty list, on a running thread and when os.makedirs fails;
\* else it makes a worker of the selection and of what size_combo and
\* quality_slider show, disables the controls and starts the thread.
start_conversion ==
    /\ window = "open"
    /\ convert_button
    /\ runs < MaxRuns
    /\ IF selection = << >> \/ start_refused(conversion_thread)
       THEN UNCHANGED vars
       ELSE \E outcome \in MakedirsOutcomes :
              IF outcome # "ok"
              THEN UNCHANGED vars
              ELSE \E option \in SizeOptions, quality \in Qualities :
                    /\ image_files' = selection
                    /\ size_option' = option
                    /\ quality_value' = quality
                    /\ output_folder' = OutDir
                    /\ _is_running' = TRUE
                    /\ pc' = "start"
                    /\ events' = << >>
                    /\ attempted' = << >>
                    /\ written' = << >>
                    /\ made_dir' = FALSE
                    /\ stopped_at' = NeverStopped
                    /\ received' = << >>
                    /\ controls' = FALSE
                    /\ convert_button' = convert_enabled(FALSE, selection)
                    /\ conversion_thread' = "running"
                    /\ runs' = runs + 1
                    /\ request' = Request(selection, option, quality, OutDir)
                    /\ previous' =
                          IF CleanRun /\ request = request'
                          THEN [known  |-> TRUE,
                                left   |-> saved_files(written),
                                counts |-> << success_count, fail_count >>]
                          ELSE NoRun
                    /\ UNCHANGED << i, success_count, fail_count, window,
                                    fs, selection >>

\* the signals emitted whose slot has not run yet
undelivered == (1..Len(events)) \ { received[k] : k \in 1..Len(received) }

\* a plausible slip: the latest signal served first
next_delivery_latest(waiting) == CHOOSE k \in waiting : \A j \in waiting : j <= k

\* the queued call the event loop makes next: the earliest posted
next_delivery(waiting) == CHOOSE k \in waiting : \A j \in waiting : k <= j

\* the main thread's event loop runs the slot of the next signal
Delivers(sig) ==
    /\ window = "open"
    /\ undelivered # {}
    /\ events[next_delivery(undelivered)].sig = sig
    /\ received' = Append(received, next_delivery(undelivered))

\* lines 454-455: update_progress sets the progress bar
update_progress ==
    /\ Delivers("progress")
    /\ UNCHANGED << worker_vars, window, fs, selection, controls,
                    convert_button, conversion_thread, runs, request,
                    previous >>

\* lines 457-458: update_status sets the status label
update_status ==
    /\ Delivers("status_update")
    /\ UNCHANGED << worker_vars, window, fs, selection, controls,
                    convert_button, conversion_thread, runs, request,
                    previous >>

\* lines 460-464: conversion_error enables the controls again
conversion_error ==
    /\ Delivers("error")
    /\ controls' = TRUE
    /\ convert_button' = convert_enabled(TRUE, selection)
    /\ UNCHANGED << worker_vars, window, fs, selection, conversion_thread,
                    runs, request, previous >>

\* lines 466-482: conversion_finished enables the controls and forgets the
\* thread, which the same signal told to quit (line 429)
conversion_finished ==
    /\ Delivers("finished")
    /\ controls' = TRUE
    /\ convert_button' = convert_enabled(TRUE, selection)
    /\ conversion_thread' = "None"
    /\ UNCHANGED << worker_vars, window, fs, selection, runs, request,
                    previous >>

Slots ==
    update_progress \/ update_status \/ conversion_error
        \/ conversion_finished

\* MainWindow.__init__: nothing selected, no worker, no thread
WinInit ==
    /\ image_files = << >>
    /\ size_option = "Original"
    /\ quality_value = QualityDefault
    /\ output_folder = OutDir
    /\ _is_running = TRUE
    /\ pc = "none"
    /\ i = 0
    /\ success_count = 0
    /\ fail_count = 0
    /\ events = << >>
    /\ attempted = << >>
    /\ written = << >>
    /\ made_dir = FALSE
    /\ stopped_at = NeverStopped
    /\ window = "open"
    /\ fs = Disk
    /\ selection = << >>
    /\ controls = TRUE
    /\ convert_button = FALSE
    /\ conversion_thread = "None"
    /\ received = << >>
    /\ runs = 0
    /\ request = Request(<< >>, "Original", QualityDefault, OutDir)
    /\ previous = NoRun

WinNext ==
    \/ select_images \/ dropEvent \/ clear_selection \/ start_conversion
    \/ Slots \/ Worker \/ CloseEvent \/ WaitReturns \/ WaitTimesOut

WinSpec == WinInit /\ [][WinNext]_vars

----------------------------------------------------------------------------
(* Runs over one file, of every kind of file and every request.            *)

\* every file the model tells apart
Files ==
    { Image(mode, width, height) :
        mode \in Modes, width \in 1..MaxDim, height \in 1..MaxDim }
    \cup { Faulty(cls) : cls \in Faults }

FileInit ==
    \E file \in Files, option \in SizeOptions, quality \in EncoderQualities :
        Constructed(<< PathA >>, option, quality, OutDir,
                    [p \in { PathA } |-> file])

FileSpec == FileInit /\ [][Worker]_vars

----------------------------------------------------------------------------
(* Runs over a folder of up to MaxTotal numbered images.                   *)

ProgInit ==
    \E total \in 1..MaxTotal :
        Constructed([k \in 1..total |-> NumberedPath(k)], "Original",
                    QualityDefault, OutDir,
                    [p \in { NumberedPath(k) : k \in 1..total } |->
                        Image("RGB", 1, 1)])

ProgSpec == ProgInit /\ [][Worker]_vars

----------------------------------------------------------------------------
(* What the claims speak of.                                               *)

IsFinished(e) == e.sig = "finished"

IsProgress(e) == e.sig = "progress"

IsError(e) == e.sig = "error"

IsCancelled(e) == e = Status(CancelledText)

\* a status a failed file produced: neither "Processing" nor "cancelled"
IsFailureStatus(e) ==
    /\ e.sig = "status_update"
    /\ e.args[1] \notin { "Processing", "Conversion cancelled." }

HasFinished == \E k \in 1..Len(events) : IsFinished(events[k])

EverStopped == stopped_at # NeverStopped

\* the run got past the output folder and into the loop
InLoop == made_dir /\ pc \in { "loop", "file", "after", "done", "killed" }

\* the files whose iteration has ended
Completed ==
    IF pc = "file" \/ (pc = "killed" /\ Len(attempted) > i)
    THEN Len(attempted) - 1 ELSE Len(attempted)

----------------------------------------------------------------------------
\* C1: in a run over a non-empty list whose output folder could be made,
\* every file whose iteration ended added exactly 1 to success_count +
\* fail_count, so the counts of the finished signal add up to the number of
\* files attempted; and that number is the length of the list when stop()
\* was never called.
C1_CountsMatchAttempts ==
    (image_files # << >> /\ InLoop) =>
        /\ success_count + fail_count = Completed
        /\ \A k \in 1..Len(events) :
              IsFinished(events[k]) =>
                /\ events[k].args[1] + events[k].args[2] = Len(attempted)
                /\ ~EverStopped => Len(attempted) = Len(image_files)

\* an uncancelled run over three files, some converted and some failed, has
\* emitted finished
C1_Witness ==
    /\ pc = "done" /\ made_dir /\ ~EverStopped /\ HasFinished
    /\ Len(attempted) = 3 /\ success_count >= 1 /\ fail_count >= 1

----------------------------------------------------------------------------
\* the file in progress when stop() was called: the file k that had started
\* while file k + 1 had not; -1 when no file had started
StoppedDuring ==
    IF stopped_at.pc = "file" THEN stopped_at.i
    ELSE IF stopped_at.pc \in { "loop", "after" } THEN stopped_at.i - 1
    ELSE 0 - 1

\* C2: when stop() is called after file k started and before file k + 1
\* begins, no file after k is attempted; when there is a file k + 1, the
\* loop check made for it emits "Conversion cancelled." once, as the last
\* signal before finished, and ends the loop; and finished carries
\* succeeded + failed <= k + 1, the files left out counted in neither.
C2_CancelStopsLoop ==
    StoppedDuring >= 0 =>
        /\ \A j \in 1..Len(attempted) : attempted[j] <= StoppedDuring
        /\ (StoppedDuring + 1 < Len(image_files) /\ pc \in { "after", "done" }) =>
              /\ i = StoppedDuring + 1
              /\ Len(SelectSeq(events, IsCancelled)) = 1
              /\ IsCancelled(events[IF pc = "done" THEN Len(events) - 1
                                                   ELSE Len(events)])
        /\ \A k \in 1..Len(events) :
              IsFinished(events[k]) =>
                /\ events[k].args[1] + events[k].args[2] <= StoppedDuring + 1
                /\ events[k].args[1] + events[k].args[2] = Len(attempted)

\* stop() came while the first of several files was converted, and the run
\* has ended
C2_Witness ==
    /\ pc = "done" /\ HasFinished /\ Len(image_files) >= 2
    /\ stopped_at = [pc |-> "file", i |-> 0]
    /\ Len(SelectSeq(events, IsCancelled)) = 1

----------------------------------------------------------------------------
\* the files attempted are the first Len(attempted) of the list, in order
AttemptsArePrefix ==
    /\ Len(attempted) <= Len(image_files)
    /\ \A j \in 1..Len(attempted) : attempted[j] = j - 1

\* C3 as stated: the attempts are a prefix of the list, none made twice,
\* and in every run that was not cancelled the prefix is the whole list.
C3_Original ==
    /\ AttemptsArePrefix
    /\ (pc = "done" /\ ~EverStopped) => Len(attempted) = Len(image_files)

\* C3, amended: the attempts are a prefix of the list, in list order from
\* index 0, none made twice (so none retried after a failure); in a run that
\* was not cancelled and whose output folder could be made, the prefix is
\* the whole list.
C3_PrefixInOrder ==
    /\ AttemptsArePrefix
    /\ (pc = "done" /\ ~EverStopped /\ (made_dir \/ image_files = << >>))
          => Len(attempted) = Len(image_files)

\* an uncancelled run went through three files though one of them failed
C3_Witness ==
    /\ pc = "done" /\ ~EverStopped /\ made_dir
    /\ attempted = << 0, 1, 2 >> /\ fail_count >= 1

----------------------------------------------------------------------------
\* C4: a finished signal is the last signal emitted, so there is at most
\* one; and a run_conversion that has returned (empty list, output folder
\* not made, loop exhausted, loop cancelled) has emitted it, and not before
\* it returned.
C4_FinishedOnceAndLast ==
    /\ \A k \in 1..Len(events) : IsFinished(events[k]) => k = Len(events)
    /\ pc = "done" => HasFinished
    /\ HasFinished => pc = "done"

\* a cancelled run has returned
C4_Witness ==
    /\ pc = "done" /\ EverStopped /\ Len(attempted) >= 1
    /\ Len(SelectSeq(events, IsFinished)) = 1

----------------------------------------------------------------------------
\* run_conversion has returned, its last signal being finished
RunCompleted == pc = "done" /\ HasFinished

\* C5 as stated: every started run eventually emits finished and returns,
\* also when the window is closed while it runs.
C5_Original == <>RunCompleted

\* C5, amended: every started run eventually emits finished and returns,
\* unless closeEvent terminates its thread after wait(1000) timed out; only
\* a confirmed close during the run terminates it.
C5_FinishesUnlessTerminated ==
    /\ [](pc = "killed" => (window = "closed" /\ ~_is_running))
    /\ <>(RunCompleted \/ pc = "killed")

\* the window was closed with confirmation during the run, wait(1000)
\* returned True, and the run had emitted finished
C5_Witness ==
    /\ window = "closed" /\ EverStopped /\ RunCompleted
    /\ Len(attempted) >= 1

----------------------------------------------------------------------------
\* C6: when os.makedirs raises, the run emits one error signal naming the
\* folder and the cause, then finished(0, N), N the length of the list, and
\* nothing else: no progress, no status, no file attempted, none written.
C6_MakedirsFailure ==
    (pc = "done" /\ image_files # << >> /\ ~made_dir) =>
        /\ Len(events) = 2
        /\ IsError(events[1])
        /\ events[1].args[2] = output_folder
        /\ events[1].args[3] \in MakedirsOutcomes \ { "ok" }
        /\ events[2] = Finished(0, Len(image_files))
        /\ attempted = << >>
        /\ written = << >>

\* the output folder of a run over two files could not be made
C6_Witness ==
    /\ pc = "done" /\ ~made_dir /\ Len(image_files) = 2
    /\ Len(SelectSeq(events, IsError)) = 1

----------------------------------------------------------------------------
\* C7: a run over an empty list emits the error "No images selected for
\* conversion.", then finished(0, 0), and nothing else; it makes no output
\* folder, attempts and writes nothing.
C7_EmptyList ==
    image_files = << >> =>
        /\ pc = "start" => events = << >>
        /\ pc = "done" =>
              events = << Error(<< "No images selected for conversion." >>),
                          Finished(0, 0) >>
        /\ ~made_dir
        /\ attempted = << >>
        /\ written = << >>

\* the run over an empty list has returned
C7_Witness == pc = "done" /\ image_files = << >> /\ Len(events) = 2

----------------------------------------------------------------------------
\* the failure kinds of the error taxonomy, by exception class
FailureKind(cls) ==
    IF cls = "FileNotFoundError" THEN "NotFound"
    ELSE IF cls = "PermissionError" THEN "AccessDenied"
    ELSE IF cls = "UnidentifiedImageError" THEN "UnrecognizedFormat"
    ELSE IF IsInstance(cls, "OSError") THEN "IOFailure"
    ELSE "Unexpected"

\* the failure kind a status text reports
ReportedKind(text) ==
    IF text[1] = "Error: File not found - " THEN "NotFound"
    ELSE IF text[1] = "Error: Permission denied - " THEN "AccessDenied"
    ELSE IF text[1] = "Error: Cannot identify image - "
         THEN "UnrecognizedFormat"
    ELSE IF text[1] = "Error processing " THEN "IOFailure"
    ELSE IF text[1] = "Unexpected error processing " THEN "Unexpected"
    ELSE "none"

\* the positions, among the first k of the list, of the files that fail
RECURSIVE FailingAmong(_)
FailingAmong(k) ==
    IF k = 0 THEN << >>
    ELSE IF fs[image_files[k]].fault = "none" THEN FailingAmong(k - 1)
    ELSE Append(FailingAmong(k - 1), k)

\* C8: inside the loop no error signal is emitted; every file that failed
\* produced exactly one failure status, naming it and its failure kind, and
\* added 1 to fail_count and nothing to success_count, and the files after
\* it were processed all the same: an uncancelled run ends with
\* succeeded = the number of files that convert and failed = the number of
\* files that do not.
C8_FailuresAreCounted ==
    (image_files # << >> /\ InLoop) =>
        LET failing  == FailingAmong(Completed)
            statuses == SelectSeq(events, IsFailureStatus)
        IN  /\ \A k \in 1..Len(events) : ~IsError(events[k])
            /\ fail_count = Len(failing)
            /\ success_count = Completed - Len(failing)
            /\ success_count = Len(written)
            /\ Len(statuses) = Len(failing)
            /\ \A r \in 1..Len(failing) :
                  /\ ReportedKind(statuses[r].args) =
                        FailureKind(fs[image_files[failing[r]]].fault)
                  /\ statuses[r].args[2] = basename(image_files[failing[r]])
            /\ (pc = "done" /\ ~EverStopped) =>
                  /\ Completed = Len(image_files)
                  /\ events[Len(events)] =
                        Finished(Len(image_files) - Len(failing), Len(failing))

\* the run over [valid, nonexistent, corrupt] ended with 1 succeeded and 2
\* failed
C8_Witness ==
    /\ pc = "done" /\ ~EverStopped
    /\ image_files = << PathA, PathB, PathC >>
    /\ events[Len(events)] = Finished(1, 2)

----------------------------------------------------------------------------
\* the documented factor table
DocumentedFactor(option) ==
    IF option = "Small" THEN << 1, 2 >>
    ELSE IF option = "Medium" THEN << 3, 4 >>
    ELSE << 3, 2 >>

\* out = max(1, r) for an integer r nearest to dim * factor
IsClampedRound(out, dim, factor) ==
    \E r \in 0..(2 * dim) :
        /\ 2 * (r * factor[2] - dim * factor[1]) <= factor[2]
        /\ 2 * (dim * factor[1] - r * factor[2]) <= factor[2]
        /\ out = Max(1, r)

\* out = max(1, r) for r the integer part of dim * factor
IsClampedFloor(out, dim, factor) ==
    \E r \in 0..(2 * dim) :
        /\ r * factor[2] <= dim * factor[1]
        /\ dim * factor[1] < (r + 1) * factor[2]
        /\ out = Max(1, r)

\* C9 as stated: every saved image has, for Small, Medium and Large, the
\* dimensions max(1, round(input_dim * factor)), and for Original those of
\* the input.
C9_Original ==
    \A k \in 1..Len(written) :
        LET src == fs[written[k].source]
            out == written[k].size
        IN  IF size_option = "Original"
            THEN out = << src.width, src.height >>
            ELSE /\ IsClampedRound(out[1], src.width,
                                   DocumentedFactor(size_option))
                 /\ IsClampedRound(out[2], src.height,
                                   DocumentedFactor(size_option))

\* C9, amended: every saved image has, for Small, Medium and Large, the
\* dimensions max(1, floor(input_dim * factor)), the product truncated and
\* not rounded, so no dimension is zero; for Original those of the input.
C9_TruncatedAndClamped ==
    \A k \in 1..Len(written) :
        LET src == fs[written[k].source]
            out == written[k].size
        IN  IF size_option = "Original"
            THEN out = << src.width, src.height >>
            ELSE /\ IsClampedFloor(out[1], src.width,
                                   DocumentedFactor(size_option))
                 /\ IsClampedFloor(out[2], src.height,
                                   DocumentedFactor(size_option))
                 /\ out[1] >= 1 /\ out[2] >= 1

\* an image one pixel wide was saved at Small: its width stayed 1
C9_Witness ==
    /\ pc = "done" /\ size_option = "Small" /\ Len(written) = 1
    /\ fs[written[1].source].width = 1 /\ fs[written[1].source].height = 5
    /\ written[1].size = << 1, 2 >>

----------------------------------------------------------------------------
\* C10: before the file at index i of a list of total files is processed,
\* the run emits progress(floor(i / total * 100)) and then the status
\* naming the file by its basename.
C10_ProgressIsFloor ==
    pc = "file" =>
        /\ events[Len(events) - 1] = Progress((100 * i) \div Len(image_files))
        /\ events[Len(events)] =
              Status(ProcessingText(i, Len(image_files),
                                    basename(image_files[i + 1])))

----------------------------------------------------------------------------
\* stop() was called before the test of line 149, made when the loop ended
CancelledBeforeEnd == EverStopped /\ stopped_at.pc # "done"

\* C11: a run whose loop has ended, by exhaustion or by the break, emits
\* progress(100) immediately before finished when the flag was not set by
\* then, and no progress(100) at all when it was.
C11_FinalProgress ==
    (InLoop /\ pc = "done") =>
        LET n == Len(events)
        IN  IF CancelledBeforeEnd
            THEN \A k \in 1..n : events[k] # Progress(100)
            ELSE /\ n >= 2
                 /\ events[n - 1] = Progress(100)
                 /\ IsFinished(events[n])
                 /\ \A k \in 1..(n - 2) : events[k] # Progress(100)

\* one run ended by exhaustion with progress(100) before finished, the
\* flag never set
C11_Witness ==
    /\ pc = "done" /\ made_dir /\ ~EverStopped /\ Len(attempted) = 2
    /\ events[Len(events) - 1] = Progress(100)

----------------------------------------------------------------------------
\* the base name of each path of the disk, without its extension
ExpectedStem(p) ==
    IF p \in { PathA, PathD } THEN << "x" >>
    ELSE IF p = PathB THEN << "m" >>
    ELSE IF p = PathC THEN << "u" >>
    ELSE IF p = PathE THEN << "n" >>
    ELSE IF p = PathF THEN << "t" >>
    ELSE IF p = PathG THEN << "y", ".", "z" >>
    ELSE << ".", "e" >>

\* two inputs that were converted share their stem
SomeStemShared ==
    \E j, k \in 1..Len(written) :
        /\ j # k
        /\ ExpectedStem(written[j].source) = ExpectedStem(written[k].source)

\* C14: every converted input is written to <output_folder>/<stem>.webp;
\* every save is counted as a success, also when it overwrites the output
\* of an earlier input with the same stem, the later one staying; so the
\* run leaves at most success_count files, and exactly that many when no
\* two converted inputs share a stem.
C14_OutputNames ==
    LET left == saved_files(written)
    IN  /\ \A k \in 1..Len(written) :
              written[k].file =
                  output_folder \o << "/" >>
                      \o ExpectedStem(written[k].source)
                      \o << ".", "w", "e", "b", "p" >>
        /\ pc # "start" => success_count = Len(written)
        /\ \A k \in 1..Len(written) :
              /\ written[k].file \in DOMAIN left
              /\ left[written[k].file].source # written[k].source =>
                    \E j \in (k + 1)..Len(written) :
                        /\ written[j].file = written[k].file
                        /\ left[written[k].file].source = written[j].source
        /\ pc # "start" =>
              /\ Cardinality(DOMAIN left) <= success_count
              /\ Cardinality(DOMAIN left) = success_count <=> ~SomeStemShared

\* a/x.p and d/x.j were both converted; o/x.webp holds the second
C14_Witness ==
    /\ pc = "done" /\ image_files = << PathA, PathD >> /\ success_count = 2
    /\ DOMAIN saved_files(written) =
          { << "o", "/", "x", ".", "w", "e", "b", "p" >> }
    /\ saved_files(written)[<< "o", "/", "x", ".", "w", "e", "b", "p" >>].source
          = PathD

----------------------------------------------------------------------------
\* C15: every output is saved lossless when quality_value is 100, and
\* lossy, at quality_value, when it is below 100.
C15_LosslessAtHundred ==
    \A k \in 1..Len(written) :
        /\ quality_value \in 1..100
        /\ quality_value = 100 => written[k].lossless
        /\ quality_value < 100 =>
              /\ ~written[k].lossless
              /\ written[k].quality = quality_value

\* an image was saved lossy at quality 99
C15_Witness ==
    /\ pc = "done" /\ quality_value = 99 /\ Len(written) = 1
    /\ ~written[1].lossless /\ written[1].quality = 99

----------------------------------------------------------------------------
Range(seq) == { seq[k] : k \in 1..Len(seq) }

\* step `first` is made before step `second` whenever both are made
Precedes(steps, first, second) ==
    \A a, b \in 1..Len(steps) :
        (steps[a] = first /\ steps[b] = second) => a < b

\* C18: a decoded image of mode P or LA is saved as RGBA when quality_value
\* is below 100, and one of mode CMYK as RGB at every quality; the
\* conversion is made before the resize and before the save.
C18_ModesNormalised ==
    \A k \in 1..Len(written) :
        LET src == fs[written[k].source]
            out == written[k]
        IN  /\ (src.mode \in { "P", "LA" } /\ quality_value < 100) =>
                  (out.mode = "RGBA" /\ "convert" \in Range(out.steps))
            /\ src.mode = "CMYK" =>
                  (out.mode = "RGB" /\ "convert" \in Range(out.steps))
            /\ Precedes(out.steps, "convert", "resize")
            /\ Precedes(out.steps, "convert", "save")
            /\ Precedes(out.steps, "resize", "save")

\* a greyscale image with alpha was converted, resized and saved as RGBA
C18_Witness ==
    /\ pc = "done" /\ Len(written) = 1 /\ quality_value = 90
    /\ size_option = "Small" /\ fs[PathA].mode = "LA"
    /\ written[1].mode = "RGBA"
    /\ written[1].steps = << "convert", "resize", "save" >>

----------------------------------------------------------------------------
\* stop() was first called while the last file of the list was processed
StoppedDuringLastFile ==
    stopped_at = [pc |-> "file", i |-> Len(image_files) - 1]

\* C19: when stop() is first called while the last file is processed, the
\* run has attempted every file, finished carries succeeded + failed =
\* total, and neither "Conversion cancelled." nor progress(100) is
\* emitted; in every run "Conversion cancelled." is emitted at most once,
\* and only when a file is left unattempted.
C19_CancelDuringLastFile ==
    /\ (StoppedDuringLastFile /\ pc = "done") =>
          /\ Len(attempted) = Len(image_files)
          /\ events[Len(events)].args[1] + events[Len(events)].args[2]
                = Len(image_files)
          /\ \A k \in 1..Len(events) :
                ~IsCancelled(events[k]) /\ events[k] # Progress(100)
    /\ Len(SelectSeq(events, IsCancelled)) <= 1
    /\ (\E k \in 1..Len(events) : IsCancelled(events[k])) =>
          Len(attempted) < Len(image_files)

\* stop() came while the third of three files was processed, and the run
\* has returned
C19_Witness ==
    /\ pc = "done" /\ Len(image_files) = 3
    /\ stopped_at = [pc |-> "file", i |-> 2]
    /\ IsFinished(events[Len(events)])

----------------------------------------------------------------------------
\* the values of the progress signals emitted so far, in emission order
ProgressValues ==
    LET ps == SelectSeq(events, IsProgress)
    IN  [k \in 1..Len(ps) |-> ps[k].args[1]]

\* C20: the progress values of a run never decrease and lie in 0..100; the
\* value emitted for each file lies in 0..99, that of the first file is 0,
\* and 100 occurs at most once, as the last progress signal of the run.
C20_ProgressMonotone ==
    LET vals == ProgressValues
        n    == Len(vals)
    IN  /\ \A k \in 1..n : vals[k] \in 0..100
        /\ \A k \in 1..(n - 1) : vals[k] <= vals[k + 1]
        /\ n \in { Len(attempted), Len(attempted) + 1 }
        /\ \A k \in 1..Len(attempted) : vals[k] \in 0..99
        /\ n >= 1 => vals[1] = 0
        /\ \A k \in 1..n :
              vals[k] = 100 =>
                /\ k = n /\ k = Len(attempted) + 1 /\ pc = "done"
                /\ events[Len(events) - 1] = Progress(100)

\* a run over 50 files has ended: 50 values below 100, then 100
C20_Witness ==
    /\ pc = "done" /\ Len(image_files) = 50
    /\ Len(ProgressValues) = 51
    /\ ProgressValues[50] = 98 /\ ProgressValues[51] = 100

----------------------------------------------------------------------------
\* the 1-based position in the list of the file a signal is about, 0 for a
\* signal that is about no file: a "Processing" status carries it, the
\* progress before it shares it, a failure status names the file
FileOfSignal(k) ==
    LET e == events[k]
    IN  IF e.sig = "status_update" /\ e.args[1] = "Processing" THEN e.args[2]
        ELSE IF IsFailureStatus(e)
             THEN CHOOSE idx \in 1..Len(image_files) :
                      basename(image_files[idx]) = e.args[2]
        ELSE IF IsProgress(e) /\ k < Len(events)
                /\ events[k + 1].sig = "status_update"
                /\ events[k + 1].args[1] = "Processing"
             THEN events[k + 1].args[2]
        ELSE 0

\* C12: every progress and status signal about file i is emitted before
\* every one about file i + 1 (its progress, then its "Processing" status,
\* then its failure status if it fails), and the slots run in the order
\* the signals were emitted.
C12_OrderedByFile ==
    /\ \A k, l \in 1..Len(events) :
          (k < l /\ FileOfSignal(k) > 0 /\ FileOfSignal(l) > 0) =>
              /\ FileOfSignal(k) <= FileOfSignal(l)
              /\ FileOfSignal(k) = FileOfSignal(l) =>
                    (~IsProgress(events[l]) /\ ~IsFailureStatus(events[k]))
    /\ \A k \in 1..Len(received) : received[k] = k

\* every signal of a run over a file that converts and a file that is
\* missing has been handled by its slot
C12_Witness ==
    /\ pc = "done" /\ image_files = << PathA, PathB >>
    /\ Len(received) = Len(events) /\ Len(events) = 7
    /\ FileOfSignal(5) = 2 /\ IsFailureStatus(events[5])

----------------------------------------------------------------------------
\* a run_conversion has been started and has not returned
RunActive == pc \in { "start", "abort", "loop", "file", "after" }

\* C13: no worker is started while the run of an earlier one is active,
\* whatever was clicked, selected, delivered or asked before.
C13_OneRunAtATime == [][runs' > runs => ~RunActive]_vars

\* the convert button can be clicked while a run is active: conversion_error
\* has enabled the controls and the run has yet to emit finished
C13_Witness ==
    /\ window = "open" /\ convert_button /\ selection # << >>
    /\ RunActive /\ conversion_thread = "running" /\ runs < MaxRuns

----------------------------------------------------------------------------
\* C16: a run that went through, of the request an earlier run that went
\* through was made of, leaves the same output files and emits the same
\* counts; and every run that attempts a file attempts the one at index 0
\* first.
C16_SameRequestSameResult ==
    /\ (previous.known /\ CleanRun) =>
          /\ saved_files(written) = previous.left
          /\ << success_count, fail_count >> = previous.counts
          /\ events[Len(events)] =
                Finished(previous.counts[1], previous.counts[2])
    /\ attempted # << >> => attempted[1] = 0

\* the second run of a request with a file that converts and one that is
\* missing has ended like the first
C16_Witness ==
    /\ runs = 2 /\ previous.known /\ CleanRun
    /\ image_files = << PathA, PathB >>
    /\ previous.counts = << 1, 1 >> /\ success_count = 1 /\ fail_count = 1

----------------------------------------------------------------------------
\* the worker holds the request start_conversion made it of
RequestKept ==
    pc # "none" =>
        Request(image_files, size_option, quality_value, output_folder)
            = request

\* C17: the worker's file list, size option, quality and output folder
\* stay what start_conversion handed over, whatever the run does and
\* whatever the window does to its own selection afterwards; and the flag
\* _is_running is set True by the constructor of a new worker and False by
\* stop(), called by closeEvent, and changed by nothing else.
C17_RequestUntouched ==
    /\ []RequestKept
    /\ [][/\ (pc # "none" /\ selection' # selection) =>
                image_files' = image_files
          /\ (_is_running' # _is_running) =>
                \/ (~_is_running' /\ window = "open" /\ window' = "waiting")
                \/ (_is_running' /\ runs' = runs + 1)
          /\ (pc # "none" /\ runs' = runs) =>
                << image_files', size_option', quality_value',
                   output_folder' >>
                    = << image_files, size_option, quality_value,
                         output_folder >>]_vars

\* the window's selection was changed while the run of a worker made of
\* the earlier selection was still active
C17_Witness ==
    /\ RunActive /\ runs = 1 /\ selection # image_files
    /\ image_files = request.files /\ image_files # << >>

----------------------------------------------------------------------------
\* the paths of the window's list
Selected == { selection[k] : k \in 1..Len(selection) }

\* the window holds no thread: it has started no worker, or
\* conversion_finished has handled the finished of the last one
NoRunForWindow == conversion_thread = "None"

\* C21: the window's list is strictly increasing, hence sorted and free of
\* duplicates; a step that changes it either empties it or adds paths it
\* did not hold, so that adding paths it holds changes nothing; and while
\* the window holds no run, convert_button is enabled exactly when the list
\* is not empty.
C21_SelectionSortedSet ==
    /\ [](/\ \A j \in 1..(Len(selection) - 1) :
                StrLess(selection[j], selection[j + 1])
          /\ Cardinality(Selected) = Len(selection)
          /\ NoRunForWindow => (convert_button <=> selection # << >>))
    /\ [][selection' # selection =>
            \/ selection' = << >>
            \/ /\ Selected \subseteq { selection'[k] : k \in 1..Len(selection') }
               /\ Len(selection') > Len(selection)]_vars

\* after a run, files picked and a file dropped make a list of three, and
\* the button is enabled
C21_Witness ==
    /\ window = "open" /\ runs = 1 /\ NoRunForWindow
    /\ selection = << PathA, PathB, PathD >> /\ convert_button

====
